---- MODULE Spec2Model ----
(***************************************************************************)
(* Model of src/main.py: the Toypad class (USB read loop, tag table,       *)
(* reconnection loop, pad-colour commands, close) together with the        *)
(* __main__ script that drives it.  Two threads run: the listener thread   *)
(* (Toypad.listen_for_tags) and the main/caller thread.  The USB device is *)
(* the environment: it can be unplugged and plugged, every transfer can    *)
(* succeed, time out or fail.                                              *)
(***************************************************************************)
EXTENDS Integers, Sequences, FiniteSets, TLC

VARIABLES
    device,         \* self.device: NoHandle (None) or a device handle
    endpoint_in,    \* local of listen_for_tags: handle the IN endpoint belongs to
    dead,           \* handles whose physical device has been unplugged
    present,        \* a toypad is physically attached
    disposed,       \* usb.util.dispose_resources(self.device) has run
    detected_tags,  \* self.detected_tags: uid (hex string) -> pad
    cbSet,          \* set_tag_callbacks has installed tagNew/tagGone/tagChange
    listening,      \* self.listening
    lpc,            \* position of the listener thread
    mpc,            \* position of the main (caller) thread
    bgIdx,          \* next pad of the background restoration in __main__
    mw,             \* write in progress on the caller thread (h = NoHandle: none)
    mcall,          \* the caller thread's last command call and its outcome
    lw,             \* write in progress on the listener thread (h = NoHandle: none)
    rx,             \* the frame the current loop iteration has read, if any
    lastCall,       \* callback invoked by the current loop iteration, if any
    lastAct,        \* for each uid: action of the most recent report about it
    restored,       \* background frames written by __main__ on the current handle
    MASTERTAG,      \* global MASTERTAG (environment variable; None by default)
    ENABLE_WRITE,   \* global ENABLE_WRITE
    cmdArgs,        \* arguments of a set_pad_color* call under study
    cmdOut          \* what that call did: its result and the frame it wrote

vars == <<device, endpoint_in, dead, present, disposed, detected_tags, cbSet,
          listening, lpc, mpc, bgIdx, mw, mcall, lw, rx, lastCall, lastAct,
          restored, MASTERTAG, ENABLE_WRITE, cmdArgs, cmdOut>>

\* Python's None in a handle-valued variable.
NoHandle == 0

(***************************************************************************)
(* Bounds of the model.                                                    *)
(***************************************************************************)
NumUids == 2
MaxPad == 2

(***************************************************************************)
(* Program constants.                                                      *)
(***************************************************************************)
MSG_NORMAL == 85
TAG_ADDED == 0
REPORT_MARKER == 86
FRAME_LEN == 32
ETIMEDOUT == 110
BGCOLOR == <<12, 12, 12>>
NEWCOLOR == <<255, 0, 0>>
TOYPAD_INIT ==
    <<85, 15, 176, 1, 40, 99, 41, 32, 76, 69, 71, 79, 32, 50, 48, 49, 52,
      247, 0, 0, 0, 0, 0, 0, 0, 0, 0, 0, 0, 0>>

(***************************************************************************)
(* Pure helpers.                                                           *)
(***************************************************************************)
RECURSIVE SumSeq(_)
SumSeq(s) == IF s = <<>> THEN 0 ELSE s[1] + SumSeq(Tail(s))

\* Mutant of calculate_checksum: the reduction modulo 256 is missing.
calculate_checksum_NoMod(command) == SumSeq(command)

calculate_checksum(command) == SumSeq(command) % 256

Zeros(n) == [i \in 1..n |-> 0]

\* The message send_command hands to the OUT endpoint.
Message(command) ==
    LET message == command \o <<calculate_checksum(command)>>
    IN  message \o Zeros(IF FRAME_LEN > Len(message) THEN FRAME_LEN - Len(message) ELSE 0)

HexChars == <<"0", "1", "2", "3", "4", "5", "6", "7",
              "8", "9", "a", "b", "c", "d", "e", "f">>

\* bytes.hex(): two lowercase hex digits per byte.
Hex(bs) ==
    [i \in 1..(2 * Len(bs)) |->
        LET b == bs[(i + 1) \div 2]
        IN  IF i % 2 = 1 THEN HexChars[(b \div 16) + 1] ELSE HexChars[(b % 16) + 1]]

\* Python slice s[lo:hi] (0-based, hi exclusive, clipped to the length).
Slice(s, lo, hi) == SubSeq(s, lo + 1, IF hi < Len(s) THEN hi ELSE Len(s))

\* Python index s[i] (0-based); IndexError when out of range.
HasIndex(s, i) == i < Len(s)
At(s, i) == s[i + 1]

pad_num(bytelist) == At(bytelist, 2)
action(bytelist) == At(bytelist, 5)
uid_of(bytelist) == Hex(Slice(bytelist, 6, 13))

\* listen_for_tags line 110: frames skipped by `continue`.
Skipped(bytelist) == Len(bytelist) = 0 \/ At(bytelist, 0) # REPORT_MARKER

\* A frame that is not skipped but too short for bytelist[2] / bytelist[5].
RaisesIndexError(bytelist) == ~Skipped(bytelist) /\ ~HasIndex(bytelist, 5)

set_pad_color_cmd(pad, color) == <<MSG_NORMAL, 6, 192, 2, pad>> \o color
set_pad_color_fade_cmd(pad, color, fade_time, count) ==
    <<MSG_NORMAL, 8, 194, 2, pad, fade_time, count>> \o color
set_pad_color_flash_cmd(pad, color, on_time, off_time, count) ==
    <<MSG_NORMAL, 9, 195, 2, pad, on_time, off_time, count>> \o color

(***************************************************************************)
(* Inputs: what the device can send, what a caller can ask for.            *)
(***************************************************************************)
Pads == 0..MaxPad
UidOf(i) == <<170, 187, 204, 221, 238, 255, 16 + i>>
UidBytes == {UidOf(i) : i \in 1..NumUids}
Uids == {Hex(u) : u \in UidBytes}

ReportFrame(pad, act, uid) ==
    <<REPORT_MARKER, 11, pad, 1, 0, act>> \o uid \o Zeros(FRAME_LEN - 13)

DeviceFrames ==
    {ReportFrame(p, a, u) : p \in Pads, a \in {0, 1}, u \in UidBytes}
    \cup {<<>>, <<MSG_NORMAL, 1, 0>> \o Zeros(FRAME_LEN - 3), <<REPORT_MARKER, 11, 0>>}

CallerCommands ==
    {set_pad_color_cmd(p, NEWCOLOR) : p \in {0}}
    \cup {set_pad_color_fade_cmd(p, BGCOLOR, 10, 1) : p \in {1}}
    \cup {set_pad_color_flash_cmd(p, NEWCOLOR, 5, 5, 2) : p \in {2}}

HandleIds == 1..4

(***************************************************************************)
(* Device handles.  usb.core.find returns a new Device object each time;   *)
(* an object lives as long as something references it (self.device, the    *)
(* IN endpoint held by listen_for_tags, the dev argument of a running      *)
(* send_command) and its resources have not been disposed.                 *)
(***************************************************************************)
RefsOf(dv, ep, w) == {dv, ep, w.h} \ {NoHandle}

Refs == RefsOf(device, endpoint_in, mw)

Alive == Refs \ (IF disposed THEN {device} ELSE {})

FreshHandle == CHOOSE h \in HandleIds : h \notin Refs /\ \A g \in HandleIds : g < h => g \in Refs

\* A transfer on handle h can succeed only while its physical device is attached.
Usable(h) == present /\ h \notin dead

(***************************************************************************)
(* Connection state of the supervisor, read off the listener's position.   *)
(***************************************************************************)
ConnState ==
    CASE lpc \in {"loop", "reading", "cbwrite"} -> "Active"
      [] lpc = "hd_loop" -> "Disconnected"
      [] lpc \in {"hd_config", "hd_init"} -> "Connecting"
      [] OTHER -> "Terminated"

(***************************************************************************)
(* The read loop's treatment of one decoded report (lines 118-136):        *)
(* the next table, the callback it invokes and the command that callback   *)
(* (tag_new / tag_gone of __main__) writes.                                *)
(***************************************************************************)
NoCall == [cb |-> "none", uid |-> <<>>, pad |-> -1, old |-> -1]
NoWrite == [h |-> NoHandle, frame |-> <<>>]
NoFrame == [got |-> FALSE, frame |-> <<>>, err |-> 0]
\* MASTERTAG = None (line 17, the variable is not set): equal to no uid.
NoMaster == <<"None">>
NoArgs == [kind |-> "none", pad |-> 0, color |-> <<>>, t1 |-> 0, t2 |-> 0, count |-> 0]
NoOut == [result |-> "none", frame |-> <<>>]

\* errno of a USBError other than a timeout (ENODEV stands for all of them:
\* line 138 tests only for 110).
FaultErrnos == {19}

\* Mutant of IsFatal: the errno test of line 138 is dropped.
IsFatal_Always(errno) == TRUE

\* Line 138: `if e.errno != 110` decides whether handle_disconnection runs.
IsFatal(errno) == errno # ETIMEDOUT

Insert(tags, uid, pad) ==
    [u \in (DOMAIN tags) \cup {uid} |-> IF u = uid THEN pad ELSE tags[u]]

Pop(tags, uid) == [u \in (DOMAIN tags) \ {uid} |-> tags[u]]

\* Mutant of OnAdded: the same-pad test of line 127 is dropped.
OnAdded_NoPadTest(tags, cb, pad, uid) ==
    IF uid \notin DOMAIN tags
    THEN [tags |-> Insert(tags, uid, pad),
          call |-> IF cb THEN [cb |-> "tagNew", uid |-> uid, pad |-> pad, old |-> -1]
                   ELSE NoCall,
          cmd  |-> IF cb THEN set_pad_color_cmd(pad, NEWCOLOR) ELSE <<>>]
    ELSE [tags |-> Insert(tags, uid, pad),
          call |-> IF cb THEN [cb |-> "tagChange", uid |-> uid, pad |-> pad,
                               old |-> tags[uid]]
                   ELSE NoCall,
          cmd  |-> <<>>]

\* Lines 119-131: an Added report (the callbacks are those of __main__:
\* tag_new writes set_pad_color(pad, [255, 0, 0]), tag_change writes nothing).
OnAdded(tags, cb, pad, uid) ==
    IF uid \notin DOMAIN tags
    THEN [tags |-> Insert(tags, uid, pad),
          call |-> IF cb THEN [cb |-> "tagNew", uid |-> uid, pad |-> pad, old |-> -1]
                   ELSE NoCall,
          cmd  |-> IF cb THEN set_pad_color_cmd(pad, NEWCOLOR) ELSE <<>>]
    ELSE IF tags[uid] # pad
    THEN [tags |-> Insert(tags, uid, pad),
          call |-> IF cb THEN [cb |-> "tagChange", uid |-> uid, pad |-> pad,
                               old |-> tags[uid]]
                   ELSE NoCall,
          cmd  |-> <<>>]
    ELSE [tags |-> tags, call |-> NoCall, cmd |-> <<>>]

\* Mutant of OnRemoved: tagGone gets the pad byte of the report.
OnRemoved_ReportPad(tags, cb, pad, uid) ==
    IF uid \in DOMAIN tags
    THEN [tags |-> Pop(tags, uid),
          call |-> IF cb THEN [cb |-> "tagGone", uid |-> uid, pad |-> pad, old |-> -1]
                   ELSE NoCall,
          cmd  |-> IF cb THEN set_pad_color_cmd(pad, BGCOLOR) ELSE <<>>]
    ELSE [tags |-> tags, call |-> NoCall, cmd |-> <<>>]

\* Mutant of OnRemoved: the entry is popped only when the report names the
\* stored pad.
OnRemoved_SamePadOnly(tags, cb, pad, uid) ==
    IF uid \in DOMAIN tags /\ tags[uid] = pad
    THEN [tags |-> Pop(tags, uid),
          call |-> IF cb THEN [cb |-> "tagGone", uid |-> uid, pad |-> tags[uid],
                               old |-> -1]
                   ELSE NoCall,
          cmd  |-> IF cb THEN set_pad_color_cmd(tags[uid], BGCOLOR) ELSE <<>>]
    ELSE [tags |-> tags, call |-> NoCall, cmd |-> <<>>]

\* Lines 132-136: a Removed report (tag_gone writes
\* set_pad_color(old_pad, BGCOLOR)).
OnRemoved(tags, cb, pad, uid) ==
    IF uid \in DOMAIN tags
    THEN [tags |-> Pop(tags, uid),
          call |-> IF cb THEN [cb |-> "tagGone", uid |-> uid, pad |-> tags[uid],
                               old |-> -1]
                   ELSE NoCall,
          cmd  |-> IF cb THEN set_pad_color_cmd(tags[uid], BGCOLOR) ELSE <<>>]
    ELSE [tags |-> tags, call |-> NoCall, cmd |-> <<>>]

\* Mutant of NextEnableWrite: the master-tag test sits outside the
\* `if action == TAG_ADDED` block.
NextEnableWrite_AnyAction(enable, master, act, uid) ==
    IF uid = master THEN ~enable ELSE enable

\* Lines 118-121: an Added report of the master tag flips ENABLE_WRITE.
NextEnableWrite(enable, master, act, uid) ==
    IF act = TAG_ADDED /\ uid = master THEN ~enable ELSE enable

ProcessReport(tags, cb, pad, act, uid) ==
    IF act = TAG_ADDED THEN OnAdded(tags, cb, pad, uid) ELSE OnRemoved(tags, cb, pad, uid)

(***************************************************************************)
(* Initial state: the script is about to call Toypad() (line 207); no      *)
(* handle is held and the listener thread does not exist yet.              *)
(***************************************************************************)
InitBase ==
    /\ device = NoHandle
    /\ endpoint_in = NoHandle
    /\ dead = {}
    /\ present = TRUE
    /\ disposed = FALSE
    /\ detected_tags = <<>>
    /\ cbSet = FALSE
    /\ listening = FALSE
    /\ lpc = "unstarted"
    /\ mpc = "ctor"
    /\ bgIdx = 0
    /\ mw = NoWrite
    /\ mcall = [state |-> "none", result |-> "none"]
    /\ lw = NoWrite
    /\ rx = NoFrame
    /\ lastCall = NoCall
    /\ lastAct = <<>>
    /\ restored = 0
    /\ ENABLE_WRITE = FALSE

\* The default configuration: MASTERTAG is not set.
Init ==
    /\ InitBase
    /\ MASTERTAG = NoMaster
    /\ cmdArgs = NoArgs
    /\ cmdOut = NoOut

\* The configuration with a master tag.
MasterInit ==
    /\ InitBase
    /\ MASTERTAG = Hex(UidOf(1))
    /\ cmdArgs = NoArgs
    /\ cmdOut = NoOut

(***************************************************************************)
(* Listener thread: Toypad.listen_for_tags.                                *)
(***************************************************************************)
\* handle_disconnection line 154, reached from the except clause (137-140).
EnterDisconnection ==
    /\ device' = NoHandle
    /\ lpc' = "hd_loop"
    /\ dead' = dead \cap RefsOf(NoHandle, endpoint_in, mw)

\* `while self.listening:` and the call of endpoint_in.read.
L_Loop ==
    /\ lpc = "loop"
    /\ IF listening
       THEN /\ lpc' = "reading"
            /\ UNCHANGED <<endpoint_in, dead>>
       ELSE /\ lpc' = "done"
            /\ endpoint_in' = NoHandle
            /\ dead' = dead \cap RefsOf(device, NoHandle, mw)
    /\ rx' = NoFrame
    /\ lastCall' = NoCall
    /\ UNCHANGED <<device, present, disposed, detected_tags, cbSet, listening, mpc,
                   bgIdx, mw, mcall, lw, lastAct, restored>>
    /\ UNCHANGED <<MASTERTAG, ENABLE_WRITE, cmdArgs, cmdOut>>

\* The read returns a frame; lines 110-136.
L_ReadFrame ==
    /\ lpc = "reading"
    /\ Usable(endpoint_in)
    /\ \E f \in DeviceFrames :
        /\ rx' = [got |-> TRUE, frame |-> f, err |-> 0]
        /\ IF Skipped(f)
           THEN /\ lpc' = "loop"
                /\ UNCHANGED <<endpoint_in, dead, detected_tags, lastCall, lastAct, lw,
                               ENABLE_WRITE>>
           ELSE IF RaisesIndexError(f)
           THEN /\ lpc' = "crashed"
                /\ endpoint_in' = NoHandle
                /\ dead' = dead \cap RefsOf(device, NoHandle, mw)
                /\ UNCHANGED <<detected_tags, lastCall, lastAct, lw, ENABLE_WRITE>>
           ELSE LET r == ProcessReport(detected_tags, cbSet, pad_num(f), action(f),
                                       uid_of(f))
                IN  /\ ENABLE_WRITE' = NextEnableWrite(ENABLE_WRITE, MASTERTAG,
                                                           action(f), uid_of(f))
                    /\ detected_tags' = r.tags
                    /\ lastCall' = r.call
                    /\ lastAct' = Insert(lastAct, Hex(SubSeq(f, 7, 13)),
                                         IF f[6] = 0 THEN "Added" ELSE "Removed")
                    /\ IF r.cmd # <<>>
                       THEN /\ lw' = [h |-> device, frame |-> Message(r.cmd)]
                            /\ lpc' = "cbwrite"
                       ELSE /\ lw' = lw
                            /\ lpc' = "loop"
                    /\ UNCHANGED <<endpoint_in, dead>>
    /\ UNCHANGED <<device, present, disposed, cbSet, listening, mpc, bgIdx, mw, mcall,
                   restored>>
    /\ UNCHANGED <<MASTERTAG, cmdArgs, cmdOut>>

\* The except clause of lines 137-140 for a USBError with the given errno.
OnUSBError(errno) ==
    IF IsFatal(errno)
    THEN EnterDisconnection
    ELSE /\ lpc' = "loop"
         /\ UNCHANGED <<device, dead>>

\* The read raises USBError with errno 110 (no data within the timeout).
L_ReadTimeout ==
    /\ lpc = "reading"
    /\ Usable(endpoint_in)
    /\ rx' = [got |-> FALSE, frame |-> <<>>, err |-> ETIMEDOUT]
    /\ OnUSBError(ETIMEDOUT)
    /\ UNCHANGED <<endpoint_in, present, disposed, detected_tags, cbSet, listening, mpc,
                   bgIdx, mw, mcall, lw, lastCall, lastAct, restored>>
    /\ UNCHANGED <<MASTERTAG, ENABLE_WRITE, cmdArgs, cmdOut>>

\* The read raises any other USBError.
L_ReadFault ==
    /\ lpc = "reading"
    /\ \E errno \in FaultErrnos :
        /\ rx' = [got |-> FALSE, frame |-> <<>>, err |-> errno]
        /\ OnUSBError(errno)
    /\ UNCHANGED <<endpoint_in, present, disposed, detected_tags, cbSet, listening, mpc,
                   bgIdx, mw, mcall, lw, lastCall, lastAct, restored>>
    /\ UNCHANGED <<MASTERTAG, ENABLE_WRITE, cmdArgs, cmdOut>>

\* The write of a callback (tag_new / tag_gone -> set_pad_color) ends.
L_CbWriteEnd ==
    /\ lpc = "cbwrite"
    /\ lw' = NoWrite
    /\ \/ /\ Usable(lw.h)
          /\ lpc' = "loop"
          /\ UNCHANGED <<device, dead>>
       \/ \E errno \in FaultErrnos \cup {ETIMEDOUT} : OnUSBError(errno)
    /\ UNCHANGED <<endpoint_in, present, disposed, detected_tags, cbSet, listening, mpc,
                   bgIdx, mw, mcall, rx, lastCall, lastAct, restored>>
    /\ UNCHANGED <<MASTERTAG, ENABLE_WRITE, cmdArgs, cmdOut>>

(***************************************************************************)
(* Listener thread: Toypad.handle_disconnection (lines 152-164).           *)
(***************************************************************************)
\* time.sleep(2); usb.core.find(...): a new handle when a toypad is attached.
HD_Find ==
    /\ lpc = "hd_loop"
    /\ IF present
       THEN /\ device' = FreshHandle
            /\ restored' = 0
            /\ lpc' = "hd_config"
       ELSE UNCHANGED <<device, restored, lpc>>
    /\ UNCHANGED <<endpoint_in, dead, present, disposed, detected_tags, cbSet, listening,
                   mpc, bgIdx, mw, mcall, lw, rx, lastCall, lastAct>>
    /\ UNCHANGED <<MASTERTAG, ENABLE_WRITE, cmdArgs, cmdOut>>

\* self.device.set_configuration(): on success init() starts writing the init
\* frame; on USBError `continue` re-tests `while not self.device`, which is
\* now false, so handle_disconnection returns to the read loop.
HD_SetConfiguration ==
    /\ lpc = "hd_config"
    /\ \E ok \in BOOLEAN :
        /\ ok => Usable(device)
        /\ IF ok
           THEN /\ lw' = [h |-> device, frame |-> Message(TOYPAD_INIT)]
                /\ lpc' = "hd_init"
           ELSE /\ lw' = lw
                /\ lpc' = "loop"
    /\ UNCHANGED <<device, endpoint_in, dead, present, disposed, detected_tags, cbSet,
                   listening, mpc, bgIdx, mw, mcall, rx, lastCall, lastAct, restored>>
    /\ UNCHANGED <<MASTERTAG, ENABLE_WRITE, cmdArgs, cmdOut>>

\* The init write ends, with or without USBError: either way the loop
\* condition is false and handle_disconnection returns.
HD_InitEnd ==
    /\ lpc = "hd_init"
    /\ \E ok \in BOOLEAN : ok => Usable(lw.h)
    /\ lw' = NoWrite
    /\ lpc' = "loop"
    /\ UNCHANGED <<device, endpoint_in, dead, present, disposed, detected_tags, cbSet,
                   listening, mpc, bgIdx, mw, mcall, rx, lastCall, lastAct, restored>>
    /\ UNCHANGED <<MASTERTAG, ENABLE_WRITE, cmdArgs, cmdOut>>

(***************************************************************************)
(* Main / caller thread: the __main__ script (lines 207-219) and calls of  *)
(* set_pad_color, set_pad_color_fade, set_pad_color_flash, close.          *)
(***************************************************************************)
\* Toypad.__init__ (lines 46-74).  No device: ValueError("ToyPad not found")
\* is raised to the caller.  A USBError of set_configuration or of the init
\* write is raised as well.  Otherwise the table is empty, the init frame is
\* written, self.listening is set and the listener thread starts, taking
\* its IN endpoint from self.device (line 106).
M_Construct ==
    /\ mpc = "ctor"
    /\ IF ~present
       THEN /\ mpc' = "notfound"
            /\ UNCHANGED <<device, endpoint_in, listening, lpc>>
       ELSE \E ok \in BOOLEAN :
                IF ok
                THEN /\ device' = FreshHandle
                     /\ endpoint_in' = FreshHandle
                     /\ listening' = TRUE
                     /\ lpc' = "loop"
                     /\ mpc' = "setcb"
                ELSE /\ mpc' = "crashed"
                     /\ UNCHANGED <<device, endpoint_in, listening, lpc>>
    /\ UNCHANGED <<dead, present, disposed, detected_tags, cbSet, bgIdx, mw, mcall, lw,
                   rx, lastCall, lastAct, restored>>
    /\ UNCHANGED <<MASTERTAG, ENABLE_WRITE, cmdArgs, cmdOut>>

\* toypad.set_tag_callbacks(...)
M_SetCallbacks ==
    /\ mpc = "setcb"
    /\ cbSet' = TRUE
    /\ mpc' = "bg"
    /\ UNCHANGED <<device, endpoint_in, dead, present, disposed, detected_tags,
                   listening, lpc, bgIdx, mw, mcall, lw, rx, lastCall, lastAct, restored>>
    /\ UNCHANGED <<MASTERTAG, ENABLE_WRITE, cmdArgs, cmdOut>>

\* send_command(self.device, command) up to endpoint_out.write: dev[0] raises
\* TypeError when self.device is None; otherwise the message is handed to
\* the OUT endpoint of self.device.  An exception in lines 209-211 is not
\* caught and ends the script without close().
SendBegin(command) ==
    IF device = NoHandle
    THEN /\ mcall' = [state |-> ConnState, result |-> "TypeError"]
         /\ mpc' = IF mpc = "bg" THEN "crashed" ELSE mpc
         /\ mw' = mw
    ELSE /\ mcall' = [state |-> ConnState, result |-> "pending"]
         /\ mw' = [h |-> device, frame |-> Message(command)]
         /\ mpc' = mpc

\* toypad.set_pad_color(0..2, BGCOLOR) of the script.
M_RestoreBegin ==
    /\ mpc = "bg"
    /\ mw = NoWrite
    /\ SendBegin(set_pad_color_cmd(bgIdx, BGCOLOR))
    /\ UNCHANGED <<device, endpoint_in, dead, present, disposed, detected_tags, cbSet,
                   listening, lpc, bgIdx, lw, rx, lastCall, lastAct, restored>>
    /\ UNCHANGED <<MASTERTAG, ENABLE_WRITE, cmdArgs, cmdOut>>

\* A command call by a caller of the class.
M_CommandBegin ==
    /\ mpc = "idle"
    /\ mw = NoWrite
    /\ \E command \in CallerCommands : SendBegin(command)
    /\ UNCHANGED <<device, endpoint_in, dead, present, disposed, detected_tags, cbSet,
                   listening, lpc, bgIdx, lw, rx, lastCall, lastAct, restored>>
    /\ UNCHANGED <<MASTERTAG, ENABLE_WRITE, cmdArgs, cmdOut>>

\* endpoint_out.write returns or raises USBError.
M_WriteEnd ==
    /\ mw # NoWrite
    /\ mw' = NoWrite
    /\ dead' = dead \cap RefsOf(device, endpoint_in, NoWrite)
    /\ \E ok \in BOOLEAN :
        /\ ok => Usable(mw.h)
        /\ mcall' = [mcall EXCEPT !.result = IF ok THEN "ok" ELSE "USBError"]
        /\ IF mpc = "bg"
           THEN IF ok
                THEN /\ restored' = IF mw.h = device THEN restored + 1 ELSE restored
                     /\ bgIdx' = bgIdx + 1
                     /\ mpc' = IF bgIdx = 2 THEN "idle" ELSE "bg"
                ELSE /\ mpc' = "crashed"
                     /\ UNCHANGED <<restored, bgIdx>>
           ELSE UNCHANGED <<restored, bgIdx, mpc>>
    /\ UNCHANGED <<device, endpoint_in, present, disposed, detected_tags, cbSet,
                   listening, lpc, lw, rx, lastCall, lastAct>>
    /\ UNCHANGED <<MASTERTAG, ENABLE_WRITE, cmdArgs, cmdOut>>

\* close(): self.listening = False, then listener_thread.join() starts.
M_Close ==
    /\ mpc = "idle"
    /\ mw = NoWrite
    /\ listening' = FALSE
    /\ mpc' = "join"
    /\ UNCHANGED <<device, endpoint_in, dead, present, disposed, detected_tags, cbSet,
                   lpc, bgIdx, mw, mcall, lw, rx, lastCall, lastAct, restored>>
    /\ UNCHANGED <<MASTERTAG, ENABLE_WRITE, cmdArgs, cmdOut>>

\* join() returns once the listener thread has ended; dispose_resources.
M_Join ==
    /\ mpc = "join"
    /\ lpc \in {"done", "crashed"}
    /\ disposed' = TRUE
    /\ mpc' = "closed"
    /\ UNCHANGED <<device, endpoint_in, dead, present, detected_tags, cbSet, listening,
                   lpc, bgIdx, mw, mcall, lw, rx, lastCall, lastAct, restored>>
    /\ UNCHANGED <<MASTERTAG, ENABLE_WRITE, cmdArgs, cmdOut>>

(***************************************************************************)
(* Environment: the toypad is unplugged or plugged in.                     *)
(***************************************************************************)
Unplug ==
    /\ present
    /\ present' = FALSE
    /\ dead' = Refs
    /\ UNCHANGED <<device, endpoint_in, disposed, detected_tags, cbSet, listening, lpc,
                   mpc, bgIdx, mw, mcall, lw, rx, lastCall, lastAct, restored>>
    /\ UNCHANGED <<MASTERTAG, ENABLE_WRITE, cmdArgs, cmdOut>>

Plug ==
    /\ ~present
    /\ present' = TRUE
    /\ UNCHANGED <<device, endpoint_in, dead, disposed, detected_tags, cbSet, listening,
                   lpc, mpc, bgIdx, mw, mcall, lw, rx, lastCall, lastAct, restored>>
    /\ UNCHANGED <<MASTERTAG, ENABLE_WRITE, cmdArgs, cmdOut>>

Listener ==
    \/ L_Loop \/ L_ReadFrame \/ L_ReadTimeout \/ L_ReadFault \/ L_CbWriteEnd
    \/ HD_Find \/ HD_SetConfiguration \/ HD_InitEnd

Caller ==
    \/ M_Construct \/ M_SetCallbacks \/ M_RestoreBegin \/ M_CommandBegin \/ M_WriteEnd
    \/ M_Close \/ M_Join

Next == Listener \/ Caller \/ Unplug \/ Plug

Spec == Init /\ [][Next]_vars

MasterSpec == MasterInit /\ [][Next]_vars

\* The threads are scheduled fairly; the environment owes nothing.  The
\* reconnection loop polls every two seconds, so a toypad that is attached
\* again and again is found at some poll.
FairSpec == Spec /\ WF_vars(Listener) /\ SF_vars(HD_Find) /\ WF_vars(Caller)

(***************************************************************************)
(* One call of set_pad_color / set_pad_color_fade / set_pad_color_flash on *)
(* a connected toypad, for a range of arguments (lines 166-176, 38-43).    *)
(***************************************************************************)
PadInputs == 0..3
ColorInputs == {<<0, 0, 0>>, <<255, 255, 255>>, BGCOLOR, NEWCOLOR, <<256, 0, 0>>, <<1, 2>>}
TimeInputs == {0, 255, 256}
ArgSet ==
    [kind : {"color", "fade", "flash"}, pad : PadInputs, color : ColorInputs,
     t1 : TimeInputs, t2 : {0, 255}, count : {1, 2, 255}]

CommandOf(a) ==
    CASE a.kind = "color" -> set_pad_color_cmd(a.pad, a.color)
      [] a.kind = "fade" -> set_pad_color_fade_cmd(a.pad, a.color, a.t1, a.count)
      [] a.kind = "flash" -> set_pad_color_flash_cmd(a.pad, a.color, a.t1, a.t2, a.count)

\* send_command: the message is built and handed to endpoint_out.write, which
\* converts it to an array of unsigned bytes; a value outside 0..255 makes
\* that conversion raise OverflowError and nothing is written.
SendResult(command) ==
    LET message == Message(command)
    IN  IF \A i \in 1..Len(message) : message[i] \in 0..255
        THEN [result |-> "written", frame |-> message]
        ELSE [result |-> "OverflowError", frame |-> <<>>]

CodecInit ==
    /\ InitBase
    /\ MASTERTAG = NoMaster
    /\ cmdArgs \in ArgSet
    /\ cmdOut = NoOut

C_Call ==
    /\ cmdArgs # NoArgs
    /\ cmdOut = NoOut
    /\ cmdOut' = SendResult(CommandOf(cmdArgs))
    /\ UNCHANGED <<device, endpoint_in, dead, present, disposed, detected_tags, cbSet,
                   listening, lpc, mpc, bgIdx, mw, mcall, lw, rx, lastCall, lastAct,
                   restored, MASTERTAG, ENABLE_WRITE, cmdArgs>>

CodecNext == C_Call

CodecSpec == CodecInit /\ [][CodecNext]_vars

TypeOK ==
    /\ device \in HandleIds \cup {NoHandle}
    /\ endpoint_in \in HandleIds \cup {NoHandle}
    /\ dead \subseteq Refs
    /\ present \in BOOLEAN
    /\ restored \in 0..3
    /\ bgIdx \in 0..3
    /\ Cardinality(Alive) <= 3

(***************************************************************************)
(* Properties.                                                             *)
(***************************************************************************)
\* A step of the read loop that decodes a report; the report's fields are
\* read off the raw frame (byte 2 pad, byte 5 action, bytes 6..12 uid).
ReportStep == ~rx.got /\ rx'.got /\ Len(rx'.frame) = FRAME_LEN /\ rx'.frame[1] = REPORT_MARKER
RxPad == rx.frame[3]
RxAdded == rx.frame[6] = 0
RxUid == Hex(SubSeq(rx.frame, 7, 13))
OthersKept(uid) ==
    \A u \in (DOMAIN detected_tags) \ {uid} :
        u \in DOMAIN detected_tags' /\ detected_tags'[u] = detected_tags[u]

C2_TableKeys ==
    DOMAIN detected_tags = {u \in DOMAIN lastAct : lastAct[u] = "Added"}

\* One tag is present after another one was added and removed again.
C2_Witness ==
    /\ DOMAIN detected_tags # {}
    /\ \E u \in DOMAIN lastAct : lastAct[u] = "Removed"

\* C3: a redundant report (Added for a uid stored on the same pad, Removed
\* for a uid not stored) leaves the table unchanged and calls no callback.
C3_RedundantReport ==
    [][ReportStep =>
        LET uid == RxUid'
            stored == uid \in DOMAIN detected_tags
            redundant == \/ RxAdded' /\ stored /\ detected_tags[uid] = RxPad'
                         \/ ~RxAdded' /\ ~stored
        IN  redundant =>
                /\ detected_tags' = detected_tags
                /\ lastCall' = NoCall
                /\ lw' = NoWrite
                /\ lpc' = "loop"
    ]_vars

\* With the callbacks installed, an Added report for a stored uid was
\* processed without any callback: the tag already was on that pad.
C3_Witness ==
    /\ rx.got /\ Len(rx.frame) = FRAME_LEN /\ rx.frame[1] = REPORT_MARKER
    /\ RxAdded /\ cbSet /\ mpc = "idle"
    /\ RxUid \in DOMAIN detected_tags /\ detected_tags[RxUid] = RxPad
    /\ lastCall = NoCall

\* C4: the table is empty whenever the supervisor is not Active after a
\* fatal fault (Disconnected, or Connecting on the way back to Active).
C4_ClearedOnDisconnect ==
    ConnState \in {"Disconnected", "Connecting"} => DOMAIN detected_tags = {}

\* C5: a command called while the supervisor is not Active fails
\* synchronously and hands no frame to the device.
C5_NotConnected ==
    mcall.state \in {"Disconnected", "Connecting"} =>
        /\ mcall.result \in {"NotConnected", "TypeError"}
        /\ mw = NoWrite

\* C6: no caller write is in progress on a handle while the listener thread
\* is inside a read, an init write or a callback write on the same handle.
C6_MutualExclusion ==
    ~ /\ mw # NoWrite
      /\ \/ lpc = "reading" /\ endpoint_in = mw.h
         \/ lpc \in {"hd_init", "cbwrite"} /\ lw.h = mw.h

\* C7: once close() is requested it returns: the listener thread stops and
\* the handle is released.
C7_CloseReturns == (mpc = "join") ~> (mpc = "closed" /\ disposed /\ lpc \in {"done", "crashed"})

\* C8: after a fatal fault, if the device is available from some time on
\* (and no shutdown is requested and the thread lives), the supervisor gets
\* back to reads that the attached device can answer.
C8_Reconnects ==
    (<>[](present /\ listening /\ lpc # "crashed")) =>
        [](lpc = "hd_loop" => <>(lpc = "reading" /\ Usable(endpoint_in)))

\* C9: in every connection epoch the background colour is restored on all
\* three pads: once the script has finished its start-up, a supervisor that
\* is reading has had three background frames written on its handle.
C9_RestoredOncePerEpoch ==
    (lpc = "reading" /\ mpc = "idle") => restored = 3

\* C10: at most one device handle is alive at any time.
C10_OneHandle == Cardinality(Alive) <= 1

\* C11: a device lookup that finds nothing is never surfaced to the caller:
\* the constructor does not end with the not-found error.
C11_NotFoundRecoverable == mpc # "notfound"

\* Arguments in range: pad 0..2, three colour components 0..255, timing and
\* count bytes 0..255.
ValidArgs(a) ==
    /\ a.pad \in 0..2
    /\ Len(a.color) = 3
    /\ \A i \in 1..Len(a.color) : a.color[i] \in 0..255
    /\ a.kind # "color" => (a.t1 \in 0..255 /\ a.count \in 0..255)
    /\ a.kind = "flash" => a.t2 \in 0..255

\* Number of opcode and payload bytes of each command.
BodyLen(kind) == CASE kind = "color" -> 8 [] kind = "fade" -> 10 [] kind = "flash" -> 11

RECURSIVE SumFirst(_, _)
SumFirst(f, n) == IF n = 0 THEN 0 ELSE f[n] + SumFirst(f, n - 1)

\* C12: for arguments in range the frame handed to the OUT endpoint has 32
\* bytes, the byte after the opcode and payload bytes is the sum of the bytes
\* before it modulo 256, and every later byte is zero.
C12_FrameLayout ==
    (cmdOut # NoOut /\ ValidArgs(cmdArgs)) =>
        LET n == BodyLen(cmdArgs.kind)
            f == cmdOut.frame
        IN  /\ cmdOut.result = "written"
            /\ Len(f) = 32
            /\ f[n + 1] = SumFirst(f, n) % 256
            /\ \A i \in (n + 2)..32 : f[i] = 0

\* A flash command with white colour and the largest timing bytes was written.
C12_Witness ==
    /\ cmdOut.result = "written" /\ ValidArgs(cmdArgs)
    /\ cmdArgs.kind = "flash" /\ cmdArgs.color = <<255, 255, 255>>
    /\ cmdArgs.t1 = 255 /\ cmdArgs.t2 = 255 /\ cmdArgs.count = 255

\* C13: a call with an argument out of range is rejected and no frame is
\* written to the device.
C13_Validation ==
    (cmdOut # NoOut /\ ~ValidArgs(cmdArgs)) =>
        (cmdOut.result # "written" /\ cmdOut.frame = <<>>)

\* C14: when configuring the newly found device fails, the supervisor does
\* not go on to the read loop (it retries; the read loop is entered only
\* after the init write).
C14_InitBeforeActive == [][lpc = "hd_config" => lpc' # "loop"]_vars

\* C15: a command write that fails while Active drives the supervisor out
\* of Active.
C15_WriteFailureDisconnects ==
    (mcall.state = "Active" /\ mcall.result = "USBError") ~> (ConnState # "Active")

\* C16: a frame that was read and is not a well-formed report (32 bytes,
\* first byte 0x56) has no effect: table and handle unchanged, no callback,
\* and the loop goes on.
C16_MalformedDiscarded ==
    [][(~rx.got /\ rx'.got /\ ~(Len(rx'.frame) = 32 /\ rx'.frame[1] = 86)) =>
        /\ detected_tags' = detected_tags
        /\ lastCall' = NoCall
        /\ device' = device
        /\ lpc' = "loop"
    ]_vars

\* C17: a read timeout (errno 110) changes neither the handle nor the table
\* nor the connection state, calls nothing, starts no reconnection, and the
\* loop goes back to the test of the shutdown flag.
C17_TimeoutNoFault ==
    [][(lpc = "reading" /\ rx'.err = 110) =>
        /\ device' = device
        /\ endpoint_in' = endpoint_in
        /\ detected_tags' = detected_tags
        /\ lastCall' = lastCall
        /\ lw' = lw
        /\ lpc' = "loop"
    ]_vars

\* A read timed out while a tag was on the pad.
C17_Witness ==
    /\ lpc = "loop" /\ rx.err = 110
    /\ DOMAIN detected_tags # {} /\ device = endpoint_in

\* C18: the init frame on the wire has 32 bytes, the 17 opcode and payload
\* bytes, the checksum 0xf7 at index 17 and zeros at indices 18..31.
C18_InitFrame ==
    lpc = "hd_init" =>
        /\ Len(lw.frame) = 32
        /\ \A i \in 1..17 : lw.frame[i] = TOYPAD_INIT[i]
        /\ lw.frame[18] = 247
        /\ \A i \in 19..32 : lw.frame[i] = 0

\* C19: every read goes to an endpoint of the handle held in self.device.
C19_ReadsCurrentDevice == lpc = "reading" => endpoint_in = device

\* C20: ENABLE_WRITE flips exactly on an Added report of the master tag
\* (keepalive re-reports included) and changes on no other step.
C20_EnableWrite ==
    [][IF ReportStep /\ RxAdded' /\ RxUid' = MASTERTAG
       THEN ENABLE_WRITE' = ~ENABLE_WRITE
       ELSE ENABLE_WRITE' = ENABLE_WRITE
    ]_vars

\* A keepalive re-report of the master tag (stored on the same pad, no
\* callback) has switched the write mode off again.
C20_Witness ==
    /\ rx.got /\ Len(rx.frame) = FRAME_LEN /\ rx.frame[1] = REPORT_MARKER
    /\ RxAdded /\ RxUid = MASTERTAG /\ cbSet
    /\ RxUid \in DOMAIN detected_tags /\ detected_tags[RxUid] = RxPad
    /\ lastCall = NoCall /\ ~ENABLE_WRITE

====
